---- MODULE Spec2Model ----
(***************************************************************************)
(* A model of cltv.py: outlier capping, feature building, the call to the  *)
(* lifetimes models, quantile segmentation and the CSV write.              *)
(*                                                                         *)
(* Numbers.  A cell of a numeric column is an integer count of 1/Scale     *)
(* units (Scale = 4: quarters), so 0.25 is 1 and 3.0 is 12.  Quantiles and *)
(* thresholds are exact rationals carried as integers over a stated        *)
(* denominator; float64 rounding error is not modelled.                    *)
(***************************************************************************)
EXTENDS Integers, Sequences, FiniteSets, TLC

VARIABLES
    col,            \* SpecCap: the column handed to replace_with_thresholds
    capped,         \* SpecCap: the column after replace_with_thresholds
    cpc,            \* SpecCap: "input" | "capped"
    rows,           \* SpecQcut: the scored table, a row [id, cltv] per customer
    segment_count,  \* cltv_final's segment_count
    segments,       \* cltv_final's segments, the list of labels
    out1,           \* SpecQcut: the first segmentation, by customer id
    out2,           \* SpecQcut: the segmentation done again
    qpc,            \* SpecQcut: "scored" | "once" | "resorted" | "twice"
    df_org,         \* the table read from the CSV file (line 220)
    df,             \* the module-level table, df_org.copy() (line 221)
    other,          \* the table an importing program passes to cltv_final
    arg,            \* the table the running call was passed: "df" | "other"
    run,            \* "module" (line 223) | "caller"
    pc,             \* where the running call of cltv_final stands
    analysis_date,  \* create_cltv's analysis_date, a day number
    cltv,           \* the table create_cltv builds and cltv_final returns
    csv,            \* cltv_final's csv flag
    csvFile         \* cltv_flo.csv: who wrote it last and how many rows

capVars == <<col, capped, cpc>>

qcutVars == <<rows, out1, out2, qpc>>

callVars == <<segment_count, segments>>

pipeVars == <<df_org, df, other, arg, run, pc, analysis_date, cltv, csv, csvFile>>

vars == <<col, capped, cpc, rows, segment_count, segments, out1, out2, qpc,
          df_org, df, other, arg, run, pc, analysis_date, cltv, csv, csvFile>>

(***************************************************************************)
(* Bounds of the model.                                                    *)
(***************************************************************************)
Scale == 4          \* cells are multiples of 1/Scale
Bulk == 100         \* rows of the repeated value in a long column
MaxExtra == 2       \* further rows of a column, each of any value
MaxVal == 8         \* largest cell of a column, in 1/Scale units
MaxN == 4           \* SpecQcut: most rows of a scored table
MaxScore == 2       \* SpecQcut: largest cltv score
MaxSeg == 3         \* largest segment_count a caller passes
MaxRows == 2        \* Spec: most rows of a table
MaxDistinct == 11   \* SpecPrep: most distinct values in the body of a column
Spike == 40         \* SpecPrep: the extreme value of a column's last row

(***************************************************************************)
(* Program constants.                                                      *)
(***************************************************************************)
low_quantile == 1   \* low_quantile=0.01, in hundredths
up_quantile == 99   \* up_quantile=0.99, in hundredths
QDen == 100         \* denominator of the two quantile parameters
cat_th == 10        \* grab_col_names(cat_th=10)
car_th == 20        \* grab_col_names(car_th=20)
AnalysisLag == 2    \* pd.Timedelta(days=2)

Range(s) == {s[i] : i \in DOMAIN s}

(***************************************************************************)
(* Series.quantile sorts the values and reads them by position.  The k-th  *)
(* smallest value (k from 0) of a non-empty sequence.                      *)
(***************************************************************************)
SortedAtUnsorted(x, k) == x[k + 1]

SortedAt(x, k) ==
    CHOOSE v \in Range(x) :
        /\ Cardinality({i \in DOMAIN x : x[i] < v}) <= k
        /\ k < Cardinality({i \in DOMAIN x : x[i] <= v})

(***************************************************************************)
(* Series.quantile(num/den) with linear interpolation, times den:          *)
(* position (n-1)*num/den, value x[lo] + frac*(x[lo+1]-x[lo]).             *)
(***************************************************************************)
Quantile(x, num, den) ==
    LET n  == Len(x)
        k  == (n - 1) * num
        lo == k \div den
        fr == k % den
        hi == IF fr = 0 THEN lo ELSE lo + 1
    IN  den * SortedAt(x, lo) + fr * (SortedAt(x, hi) - SortedAt(x, lo))

(***************************************************************************)
(* outlier_thresholds: both limits times 2*QDen, so that the 1.5 factor    *)
(* and the quantile fraction stay whole.  The unit of a limit is           *)
(* 1/(2*QDen*Scale).                                                       *)
(***************************************************************************)
LimDen == 2 * QDen

outlier_thresholds(x) ==
    LET quantile1 == Quantile(x, low_quantile, QDen)
        quantile3 == Quantile(x, up_quantile, QDen)
        interquantile_range == quantile3 - quantile1
    IN  [low |-> 2 * quantile1 - 3 * interquantile_range,
         up  |-> 2 * quantile3 + 3 * interquantile_range]

(***************************************************************************)
(* round(limit, 0) of a float: to the nearest whole number, ties to the    *)
(* even one.  Takes a limit in 1/(LimDen*Scale) units and gives a cell in  *)
(* 1/Scale units.                                                          *)
(***************************************************************************)
RoundCeil(p) ==
    LET d == LimDen * Scale
    IN  Scale * (IF p % d = 0 THEN p \div d ELSE (p \div d) + 1)

Round(p) ==
    LET d == LimDen * Scale
        w == p \div d
        r == p % d
    IN  Scale * (IF 2 * r < d THEN w
                 ELSE IF 2 * r > d THEN w + 1
                 ELSE IF w % 2 = 0 THEN w ELSE w + 1)

(***************************************************************************)
(* replace_with_thresholds: the limits are computed once; the second       *)
(* assignment tests the column as the first one left it.                   *)
(***************************************************************************)
replace_unrounded(x) ==
    IF Len(x) = 0 THEN x
    ELSE LET t == outlier_thresholds(x)
         IN  [i \in DOMAIN x |->
                 IF LimDen * x[i] < t.low THEN t.low \div LimDen
                 ELSE IF LimDen * x[i] > t.up THEN t.up \div LimDen
                 ELSE x[i]]

replace_with_thresholds(x) ==
    IF Len(x) = 0 THEN x
    ELSE LET t  == outlier_thresholds(x)
             x1 == [i \in DOMAIN x |->
                       IF LimDen * x[i] < t.low THEN Round(t.low) ELSE x[i]]
         IN  [i \in DOMAIN x |->
                 IF LimDen * x1[i] > t.up THEN Round(t.up) ELSE x1[i]]

(***************************************************************************)
(* pd.qcut(x, q, labels).  The bin edges are the quantiles 0, 1/q, ..., 1  *)
(* of x, here each times q.  pandas raises ValueError when two edges       *)
(* coincide (duplicates="raise", unless there are just two edges), when a  *)
(* label is repeated, and when the labels are not one fewer than the       *)
(* edges.  Otherwise a value falls in the bin (edge[k-1], edge[k]], found  *)
(* by searchsorted(side="left"), and the lowest edge is included.          *)
(***************************************************************************)
BinEdges(x, q) == [k \in 1..(q + 1) |-> Quantile(x, k - 1, q)]

searchsorted_right(bins, v) == Cardinality({k \in DOMAIN bins : bins[k] <= v})

searchsorted(bins, v) == Cardinality({k \in DOMAIN bins : bins[k] < v})

BinOf(bins, v) == IF v = bins[1] THEN 1 ELSE searchsorted(bins, v)

QcutRaises(bins, labels) ==
    \/ Cardinality(Range(bins)) < Len(bins) /\ Len(bins) # 2
    \/ Cardinality(Range(labels)) # Len(labels)
    \/ Len(labels) # Len(bins) - 1

qcut(x, q, labels) ==
    LET bins == BinEdges(x, q)
    IN  IF QcutRaises(bins, labels)
        THEN [ok |-> FALSE, bins |-> <<>>, segment |-> <<>>]
        ELSE [ok |-> TRUE, bins |-> bins,
              segment |-> [i \in DOMAIN x |->
                  LET b == BinOf(bins, q * x[i])
                  IN  IF b = 0 \/ b = Len(bins) THEN "NaN" ELSE labels[b]]]

\* The label list a caller passes: the first n of the six of line 223.
AllLabels == <<"F", "D", "C", "B", "A", "S">>

LabelLists == {SubSeq(AllLabels, 1, n) : n \in 1..MaxSeg}

(***************************************************************************)
(* Tables.  A DataFrame is its column names in order, a dtype per column   *)
(* ("O" object, "num", "datetime64") and a sequence of cells per column.   *)
(* A date read from the CSV file is text, <<"str", d>>; pd.to_datetime     *)
(* turns it into the day number d.                                         *)
(***************************************************************************)
NRows(t) == Len(t.data.master_id)

nunique(x) == Cardinality(Range(x))

WithColumn(t, c, ty, x) ==
    IF c \in DOMAIN t.data
    THEN [t EXCEPT !.dtypes[c] = ty, !.data[c] = x]
    ELSE [columns |-> Append(t.columns, c),
          dtypes  |-> (c :> ty) @@ t.dtypes,
          data    |-> (c :> x) @@ t.data]

EmptyFrame == [columns |-> <<>>, dtypes |-> <<>>, data |-> <<>>]

(***************************************************************************)
(* grab_col_names: a column that is not of dtype object and holds fewer    *)
(* than cat_th distinct values counts as categorical, not numeric.         *)
(***************************************************************************)
grab_all_numeric(t) ==
    [cat_cols    |-> SelectSeq(t.columns, LAMBDA c : t.dtypes[c] = "O"),
     cat_but_car |-> <<>>,
     num_cols    |-> SelectSeq(t.columns, LAMBDA c : t.dtypes[c] # "O")]

grab_col_names(t) ==
    LET num_but_cat == SelectSeq(t.columns, LAMBDA c :
                           nunique(t.data[c]) < cat_th /\ t.dtypes[c] # "O")
        cat_but_car == SelectSeq(t.columns, LAMBDA c :
                           nunique(t.data[c]) > car_th /\ t.dtypes[c] = "O")
        cat_cols    == SelectSeq(t.columns, LAMBDA c : t.dtypes[c] = "O")
                           \o num_but_cat
        num_cols    == SelectSeq(t.columns, LAMBDA c : t.dtypes[c] # "O")
    IN  [cat_cols    |-> SelectSeq(cat_cols, LAMBDA c : c \notin Range(cat_but_car)),
         cat_but_car |-> cat_but_car,
         num_cols    |-> SelectSeq(num_cols, LAMBDA c : c \notin Range(num_but_cat))]

(***************************************************************************)
(* data_prep: caps the numeric columns one after the other, adds the two   *)
(* totals, converts the columns whose name contains "date".                *)
(***************************************************************************)
RECURSIVE CapEach(_, _)
CapEach(t, cs) ==
    IF cs = <<>> THEN t
    ELSE CapEach([t EXCEPT !.data[Head(cs)] = replace_with_thresholds(@)],
                 Tail(cs))

Plus(x, y) == [i \in DOMAIN x |-> x[i] + y[i]]

to_datetime(v, dtype) == IF dtype = "O" THEN v[2] ELSE v

DateColumns == {"first_order_date", "last_order_date"}

RECURSIVE ConvertDates(_, _)
ConvertDates(t, cs) ==
    IF cs = <<>> THEN t
    ELSE LET c == Head(cs)
         IN  ConvertDates(
                 IF c \in DateColumns
                 THEN WithColumn(t, c, "datetime64",
                          [i \in DOMAIN t.data[c] |->
                              to_datetime(t.data[c][i], t.dtypes[c])])
                 ELSE t,
                 Tail(cs))

data_prep(t) ==
    LET numeric == grab_col_names(t).num_cols
        t1 == CapEach(t, numeric)
        t2 == WithColumn(t1, "total_order_num", "num",
                  Plus(t1.data.order_num_total_ever_online,
                       t1.data.order_num_total_ever_offline))
        t3 == WithColumn(t2, "customer_value_total", "num",
                  Plus(t2.data.customer_value_total_ever_offline,
                       t2.data.customer_value_total_ever_online))
    IN  ConvertDates(t3, t3.columns)

(***************************************************************************)
(* create_cltv, after its call of data_prep: analysis_date comes from the  *)
(* table passed, every column of the result from the module-level df.      *)
(* Weeks are days over WeekDays; a Series divided by a Series raises       *)
(* nothing on a zero divisor and gives inf or NaN.                         *)
(***************************************************************************)
WeekDays == 7

Max(S) == CHOOSE m \in S : \A v \in S : v <= m

Finite(a, b) == [is |-> "finite", num |-> a, den |-> b]

NonFinite(what) == [is |-> what, num |-> 0, den |-> 0]

DivideOrZero(a, b) == IF b = 0 THEN Finite(0, 1) ELSE Finite(a, b)

Divide(a, b) ==
    IF b # 0 THEN Finite(a, b)
    ELSE IF a = 0 THEN NonFinite("NaN")
    ELSE IF a > 0 THEN NonFinite("inf") ELSE NonFinite("-inf")

Usable(t) ==
    /\ {"total_order_num", "customer_value_total"} \subseteq DOMAIN t.data
    /\ \A c \in DateColumns : t.dtypes[c] = "datetime64"

FeaturesOf(t, adate) ==
    LET n == NRows(t)
        frequency == t.data.total_order_num
    IN  [columns |-> <<"customer_id", "recency_cltv_weekly", "T_weekly",
                       "frequency", "monetary_cltv_avg">>,
         dtypes  |-> [customer_id |-> "O", recency_cltv_weekly |-> "num",
                      T_weekly |-> "num", frequency |-> "num",
                      monetary_cltv_avg |-> "num"],
         data    |-> [customer_id |-> t.data.master_id,
                      recency_cltv_weekly |-> [i \in 1..n |->
                          t.data.last_order_date[i] - t.data.first_order_date[i]],
                      T_weekly |-> [i \in 1..n |->
                          adate - t.data.first_order_date[i]],
                      frequency |-> frequency,
                      monetary_cltv_avg |-> [i \in 1..n |->
                          Divide(t.data.customer_value_total[i], frequency[i])]]]

create_cltv_from_argument(passed, global) ==
    FeaturesOf(passed, Max(Range(passed.data.last_order_date)) + AnalysisLag)

create_cltv(passed, global) ==
    FeaturesOf(global, Max(Range(passed.data.last_order_date)) + AnalysisLag)

(***************************************************************************)
(* The tables of Spec: up to MaxRows customers, each one of three kinds.   *)
(* A count or an amount is in 1/Scale units.                               *)
(***************************************************************************)
Customers ==
    { [first_order_date |-> <<"str", 0>>, last_order_date |-> <<"str", 70>>,
       order_num_total_ever_online |-> 3 * Scale,
       order_num_total_ever_offline |-> 0,
       customer_value_total_ever_offline |-> 0,
       customer_value_total_ever_online |-> 30 * Scale],
      [first_order_date |-> <<"str", 0>>, last_order_date |-> <<"str", 0>>,
       order_num_total_ever_online |-> 1 * Scale,
       order_num_total_ever_offline |-> 0,
       customer_value_total_ever_offline |-> 0,
       customer_value_total_ever_online |-> 10 * Scale + 1],
      [first_order_date |-> <<"str", 7>>, last_order_date |-> <<"str", 7>>,
       order_num_total_ever_online |-> 0,
       order_num_total_ever_offline |-> 0,
       customer_value_total_ever_offline |-> 0,
       customer_value_total_ever_online |-> 0] }

CsvColumns ==
    <<"master_id", "first_order_date", "last_order_date",
      "order_num_total_ever_online", "order_num_total_ever_offline",
      "customer_value_total_ever_offline", "customer_value_total_ever_online">>

CsvDtypes ==
    [master_id |-> "O", first_order_date |-> "O", last_order_date |-> "O",
     order_num_total_ever_online |-> "num", order_num_total_ever_offline |-> "num",
     customer_value_total_ever_offline |-> "num",
     customer_value_total_ever_online |-> "num"]

\* read_csv of a file whose i-th line is the customer r[i]; name marks the file.
read_csv(name, r) ==
    [columns |-> CsvColumns,
     dtypes  |-> CsvDtypes,
     data    |-> [c \in Range(CsvColumns) |->
                     [i \in DOMAIN r |->
                         IF c = "master_id" THEN <<name, i>> ELSE r[i][c]]]]

SmallTables(name) ==
    {read_csv(name, r) : r \in UNION {[1..n -> Customers] : n \in 1..MaxRows}}

(***************************************************************************)
(* lifetimes is not part of the repository.  BetaGeoFitter.fit and         *)
(* GammaGammaFitter.fit either raise or give every customer a score; the   *)
(* scores are taken rising, falling or all equal along the table.          *)
(***************************************************************************)
ScoreVectors(n) ==
    {[i \in 1..n |-> i], [i \in 1..n |-> n + 1 - i], [i \in 1..n |-> 1]}

(***************************************************************************)
(* SpecCap: replace_with_thresholds on one column.  A column is Bulk rows  *)
(* of one value (or none) followed by up to MaxExtra rows of any value;    *)
(* with 1%/99% quantiles no value lies outside the limits in a column of   *)
(* fewer than 62 rows.                                                     *)
(***************************************************************************)
Vals == 0..MaxVal

Repeat(v, n) == [i \in 1..n |-> v]

Columns ==
    {Repeat(b, nb) \o e :
        b \in Vals, nb \in {0, Bulk},
        e \in UNION {[1..m -> Vals] : m \in 0..MaxExtra}}

CapIdle == col = <<>> /\ capped = <<>> /\ cpc = "idle"

CapInit ==
    /\ col \in Columns
    /\ capped = <<>>
    /\ cpc = "input"

Cap ==
    /\ cpc = "input"
    /\ capped' = replace_with_thresholds(col)
    /\ cpc' = "capped"
    /\ UNCHANGED <<col, qcutVars, callVars, pipeVars>>

(***************************************************************************)
(* SpecQcut: line 212 on a scored table, then on the same table with two   *)
(* rows exchanged, or simply once more.  A result is kept by customer id.  *)
(***************************************************************************)
ScoreOf(t) == [i \in DOMAIN t |-> t[i].cltv]

ById(t, r) ==
    [ok |-> r.ok, bins |-> r.bins,
     segment |-> IF r.ok THEN [c \in {t[i].id : i \in DOMAIN t} |->
                                  r.segment[CHOOSE i \in DOMAIN t : t[i].id = c]]
                 ELSE <<>>]

Swap(t, a, b) ==
    [i \in DOMAIN t |-> IF i = a THEN t[b] ELSE IF i = b THEN t[a] ELSE t[i]]

NoResult == [ok |-> FALSE, bins |-> <<>>, segment |-> <<"none">>]

QcutInit ==
    /\ \E n \in 1..MaxN : \E sc \in [1..n -> 0..MaxScore] :
          rows = [i \in 1..n |-> [id |-> i, cltv |-> sc[i]]]
    /\ segment_count \in 1..MaxSeg
    /\ segments \in LabelLists
    /\ out1 = NoResult
    /\ out2 = NoResult
    /\ qpc = "scored"

Segment ==
    /\ qpc = "scored"
    /\ out1' = ById(rows, qcut(ScoreOf(rows), segment_count, segments))
    /\ qpc' = "once"
    /\ UNCHANGED <<rows, segment_count, segments, out2, capVars, pipeVars>>

Resort ==
    /\ qpc = "once"
    /\ \E a, b \in DOMAIN rows : a < b /\ rows' = Swap(rows, a, b)
    /\ qpc' = "resorted"
    /\ UNCHANGED <<segment_count, segments, out1, out2, capVars, pipeVars>>

SegmentAgain ==
    /\ qpc \in {"once", "resorted"}
    /\ out2' = ById(rows, qcut(ScoreOf(rows), segment_count, segments))
    /\ qpc' = "twice"
    /\ UNCHANGED <<rows, segment_count, segments, out1, capVars, pipeVars>>

(***************************************************************************)
(* The checks lifetimes makes on its inputs before fitting (ValueError):   *)
(* a recency above T or below zero, a recency other than zero at frequency *)
(* zero, a frequency that is not a whole number, a monetary value <= 0.    *)
(* NaN and inf pass the last test.                                         *)
(***************************************************************************)
NonPositive(m) ==
    IF m.is \in {"NaN", "inf"} THEN FALSE
    ELSE IF m.is = "-inf" THEN TRUE
    ELSE m.num = 0 \/ ((m.num < 0) # (m.den < 0))

FitRejects(f) ==
    \E i \in DOMAIN f.data.customer_id :
        \/ f.data.recency_cltv_weekly[i] > f.data.T_weekly[i]
        \/ f.data.recency_cltv_weekly[i] < 0
        \/ f.data.frequency[i] = 0 /\ f.data.recency_cltv_weekly[i] # 0
        \/ f.data.frequency[i] % Scale # 0
        \/ NonPositive(f.data.monetary_cltv_avg[i])

(***************************************************************************)
(* Spec: the module-level call cltv_final(df, 6, [...]) of line 223, then  *)
(* one call of cltv_final by a program that imported the module, with a    *)
(* table of its own.  Each action is one step of cltv_final.               *)
(***************************************************************************)
Passed == IF arg = "df" THEN df ELSE other

NoFile == [writer |-> "nobody", rows |-> 0]

ModuleStart ==
    /\ df = df_org
    /\ other = EmptyFrame
    /\ arg = "df"
    /\ run = "module"
    /\ pc = "called"
    /\ analysis_date = 0
    /\ cltv = EmptyFrame
    /\ segment_count = Len(AllLabels)
    /\ segments = AllLabels
    /\ csv = TRUE
    /\ csvFile = NoFile

LoadInit ==
    /\ df_org \in SmallTables("flo_data_20k")
    /\ ModuleStart

\* line 138: data_prep changes the table it is passed, in place.
DataPrep ==
    /\ pc = "called"
    /\ IF arg = "df"
       THEN df' = data_prep(df) /\ other' = other
       ELSE other' = data_prep(other) /\ df' = df
    /\ pc' = "prepared"
    /\ UNCHANGED <<df_org, arg, run, analysis_date, cltv, csv, csvFile,
                   callVars, capVars, qcutVars>>

\* lines 139-149.
CreateCltv ==
    /\ pc = "prepared"
    /\ IF Usable(df)
       THEN /\ analysis_date' = Max(Range(Passed.data.last_order_date)) + AnalysisLag
            /\ cltv' = create_cltv(Passed, df)
            /\ pc' = "features"
       ELSE /\ pc' = "failed"
            /\ UNCHANGED <<analysis_date, cltv>>
    /\ UNCHANGED <<df_org, df, other, arg, run, csv, csvFile,
                   callVars, capVars, qcutVars>>

\* lines 169-187.
Modelling ==
    /\ pc = "features"
    /\ \/ /\ pc' = "failed"
          /\ cltv' = cltv
       \/ /\ ~FitRejects(cltv)
          /\ \E sc \in ScoreVectors(NRows(df)) :
                cltv' = WithColumn(cltv, "cltv", "num", sc)
          /\ pc' = "modelled"
    /\ UNCHANGED <<df_org, df, other, arg, run, analysis_date, csv, csvFile,
                   callVars, capVars, qcutVars>>

\* line 212.
SegmentStep ==
    /\ pc = "modelled"
    /\ LET r == qcut(cltv.data.cltv, segment_count, segments)
       IN  IF r.ok
           THEN /\ cltv' = WithColumn(cltv, "segment", "category", r.segment)
                /\ pc' = "segmented"
           ELSE /\ cltv' = cltv
                /\ pc' = "failed"
    /\ UNCHANGED <<df_org, df, other, arg, run, analysis_date, csv, csvFile,
                   callVars, capVars, qcutVars>>

WriteCsvBeforeSegment ==
    /\ csv
    /\ \/ /\ pc = "modelled"
          /\ csvFile.writer # run
          /\ csvFile' = [writer |-> run, rows |-> NRows(df)]
          /\ pc' = pc
       \/ /\ pc = "segmented"
          /\ csvFile' = csvFile
          /\ pc' = "written"
    /\ UNCHANGED <<df_org, df, other, arg, run, analysis_date, cltv, csv,
                   callVars, capVars, qcutVars>>

\* lines 214-215.
WriteCsv ==
    /\ pc = "segmented"
    /\ csv
    /\ csvFile' = [writer |-> run, rows |-> NRows(df)]
    /\ pc' = "written"
    /\ UNCHANGED <<df_org, df, other, arg, run, analysis_date, cltv, csv,
                   callVars, capVars, qcutVars>>

\* line 217.
Return ==
    /\ pc = "written" \/ (pc = "segmented" /\ ~csv)
    /\ pc' = "done"
    /\ UNCHANGED <<df_org, df, other, arg, run, analysis_date, cltv, csv, csvFile,
                   callVars, capVars, qcutVars>>

\* The import has finished; the importing program reads a table of its own
\* and calls cltv_final(other, segment_count, segments, csv).
Call ==
    /\ pc = "done"
    /\ run = "module"
    /\ run' = "caller"
    /\ arg' = "other"
    /\ other' \in SmallTables("caller")
    /\ segment_count' \in 1..MaxSeg
    /\ segments' \in LabelLists
    /\ csv' \in BOOLEAN
    /\ pc' = "called"
    /\ cltv' = EmptyFrame
    /\ analysis_date' = 0
    /\ UNCHANGED <<df_org, df, csvFile, capVars, qcutVars>>

(***************************************************************************)
(* SpecPrep: data_prep on long tables.  The table has Bulk rows whose      *)
(* online order count and online amount run through mc and mv distinct     *)
(* values, and a last row that is ordinary or extreme in either column.    *)
(***************************************************************************)
LongRow(i, mc, mv, sc, sv) ==
    [first_order_date |-> <<"str", 0>>,
     last_order_date |-> <<"str", i % WeekDays>>,
     order_num_total_ever_online |->
         IF i > Bulk THEN (IF sc THEN Spike * Scale ELSE Scale)
         ELSE (1 + (i % mc)) * Scale,
     order_num_total_ever_offline |-> Scale,
     customer_value_total_ever_offline |-> 0,
     customer_value_total_ever_online |->
         IF i > Bulk THEN (IF sv THEN Spike * Scale + 1 ELSE Scale + 1)
         ELSE (1 + (i % mv)) * Scale + 1]

LongTables ==
    {read_csv("flo_data_20k", [i \in 1..(Bulk + 1) |-> LongRow(i, mc, mv, sc, sv)]) :
        mc \in 1..MaxDistinct, mv \in 1..MaxDistinct,
        sc \in BOOLEAN, sv \in BOOLEAN}

PrepInit ==
    /\ df_org \in LongTables
    /\ ModuleStart

PipeIdle ==
    /\ df_org = EmptyFrame /\ df = EmptyFrame /\ other = EmptyFrame
    /\ arg = "df" /\ run = "idle" /\ pc = "idle" /\ analysis_date = 0
    /\ cltv = EmptyFrame /\ csv = FALSE /\ csvFile = NoFile

(***************************************************************************)
(* Specifications.  Each runs one part of the program and leaves the       *)
(* variables of the others at rest.                                        *)
(***************************************************************************)
QcutIdle == rows = <<>> /\ out1 = NoResult /\ out2 = NoResult /\ qpc = "idle"

CallIdle == segment_count = 0 /\ segments = <<>>

CapNext == Cap

InitCap == CapInit /\ QcutIdle /\ CallIdle /\ PipeIdle

SpecCap == InitCap /\ [][CapNext]_vars

QcutNext == Segment \/ Resort \/ SegmentAgain

InitQcut == QcutInit /\ CapIdle /\ PipeIdle

SpecQcut == InitQcut /\ [][QcutNext]_vars

Init == LoadInit /\ CapIdle /\ QcutIdle

PrepNext == DataPrep

InitPrep == PrepInit /\ CapIdle /\ QcutIdle

SpecPrep == InitPrep /\ [][PrepNext]_vars

Next == DataPrep \/ CreateCltv \/ Modelling \/ SegmentStep \/ WriteCsv \/ Return \/ Call

Spec == Init /\ [][Next]_vars

(***************************************************************************)
(* Claims about replace_with_thresholds (under SpecCap).                   *)
(***************************************************************************)
IsBelow(t, v) == LimDen * v < t.low

IsAbove(t, v) == LimDen * v > t.up

IsClamped(t, v) == IsBelow(t, v) \/ IsAbove(t, v)

WholeNumbers(x) == \A i \in DOMAIN x : x[i] % Scale = 0

\* The first row of each distinct value of a column.
FirstRows(x) == {i \in DOMAIN x : \A j \in 1..(i - 1) : x[j] # x[i]}

\* C1: with low and up computed from the column before capping, every value
\* inside [low, up] is left unchanged, every value below low becomes exactly
\* round(low) and every value above up becomes exactly round(up).
C1_CapExact ==
    cpc = "capped" =>
        /\ DOMAIN capped = DOMAIN col
        /\ LET t == outlier_thresholds(col)
           IN  \A i \in DOMAIN col :
                  /\ (~IsClamped(t, col[i])) => capped[i] = col[i]
                  /\ IsBelow(t, col[i]) => capped[i] = Round(t.low)
                  /\ IsAbove(t, col[i]) => capped[i] = Round(t.up)

C1_Witness ==
    /\ cpc = "capped"
    /\ LET t == outlier_thresholds(col)
       IN  \E i, j, k \in FirstRows(col) :
              /\ IsBelow(t, col[i]) /\ capped[i] # col[i]
              /\ IsAbove(t, col[j]) /\ capped[j] # col[j]
              /\ ~IsClamped(t, col[k])

\* C10 as stated: capping preserves the order of the values of a column,
\* also between a clamped value and an unclamped one.
C10_OrderPreserved ==
    cpc = "capped" =>
        \A a \in FirstRows(col) : \A b \in DOMAIN col :
            /\ col[a] <= col[b] => capped[a] <= capped[b]
            /\ col[b] <= col[a] => capped[b] <= capped[a]

\* C10 amended: capping preserves the order of any two values that are both
\* clamped or both left alone, and of all values of a column of whole
\* numbers; a clamped value and an unclamped fractional one can swap order,
\* by no more than 0.5.
OrderUpToRounding(t, whole, x, y, a, b) ==
    x[a] <= x[b] =>
        /\ (IsClamped(t, x[a]) <=> IsClamped(t, x[b])) => y[a] <= y[b]
        /\ whole => y[a] <= y[b]
        /\ 2 * (y[a] - y[b]) <= Scale

C10_OrderUpToRounding ==
    cpc = "capped" =>
        LET t     == outlier_thresholds(col)
            whole == WholeNumbers(col)
        IN  \A a \in FirstRows(col) : \A b \in DOMAIN col :
                /\ OrderUpToRounding(t, whole, col, capped, a, b)
                /\ OrderUpToRounding(t, whole, col, capped, b, a)

C10_Witness ==
    /\ cpc = "capped"
    /\ WholeNumbers(col)
    /\ LET t == outlier_thresholds(col)
       IN  \E a, b \in FirstRows(col) :
              /\ col[a] < col[b]
              /\ IsBelow(t, col[a]) /\ ~IsClamped(t, col[b])
              /\ capped[a] # col[a]
              /\ capped[a] <= capped[b]

(***************************************************************************)
(* Claims about the segmentation (under SpecQcut).                         *)
(***************************************************************************)
Position(l) == CHOOSE k \in DOMAIN segments : segments[k] = l

BucketSize(r, l) == Cardinality({c \in DOMAIN r.segment : r.segment[c] = l})

ScoreOfId(c) == rows[CHOOSE i \in DOMAIN rows : rows[i].id = c].cltv

Labelled(r) == \A c \in DOMAIN r.segment : r.segment[c] \in Range(segments)

Monotone(r) ==
    \A a, b \in DOMAIN r.segment :
        ScoreOfId(a) <= ScoreOfId(b) =>
            Position(r.segment[a]) <= Position(r.segment[b])

LowestFirst(r) ==
    \A a \in DOMAIN r.segment :
        (\A b \in DOMAIN r.segment : ScoreOfId(a) <= ScoreOfId(b)) =>
            r.segment[a] = segments[1]

EqualSized(r) ==
    \A k, l \in Range(segments) : BucketSize(r, k) - BucketSize(r, l) <= 1

DistinctScores == \A i, j \in DOMAIN rows : i # j => rows[i].cltv # rows[j].cltv

\* C4 as stated: with as many labels as segments, the customers fall into
\* buckets whose sizes differ by at most one, labelled in score order with
\* the lowest scores under the first label, for every score vector, repeated
\* scores included.
C4_EqualQuantileBuckets ==
    (qpc = "once" /\ Len(segments) = segment_count /\ out1.ok) =>
        Labelled(out1) /\ Monotone(out1) /\ LowestFirst(out1) /\ EqualSized(out1)

\* C4 amended: whenever the segmentation succeeds every customer has a
\* label of the list, labels follow score order and the lowest score has
\* the first label; the bucket sizes differ by at most one when the scores
\* are pairwise distinct.  With repeated scores the buckets can be unequal.
C4_OrderedBuckets ==
    (qpc = "once" /\ Len(segments) = segment_count /\ out1.ok) =>
        /\ Labelled(out1) /\ Monotone(out1) /\ LowestFirst(out1)
        /\ DistinctScores => EqualSized(out1)

C4_Witness ==
    /\ qpc = "once" /\ Len(segments) = segment_count /\ out1.ok
    /\ segment_count >= 2
    /\ DistinctScores
    /\ \E k, l \in Range(segments) :
          BucketSize(out1, k) = 2 /\ BucketSize(out1, l) = 1

\* C5: the segmentation depends on the scores and not on the row order:
\* with two rows exchanged, or simply run again, it gives the same bucket
\* boundaries and every customer the same label (or fails both times).
C5_OrderIndependent == qpc = "twice" => out2 = out1

C5_Witness ==
    /\ qpc = "twice" /\ out1.ok /\ out2.ok
    /\ \E i \in DOMAIN rows : rows[i].id # i /\ rows[i].cltv # rows[rows[i].id].cltv
    /\ \E a, b \in DOMAIN out2.segment : out2.segment[a] # out2.segment[b]

(***************************************************************************)
(* Claims about data_prep (under SpecPrep).                                *)
(***************************************************************************)
NumericCsvColumns ==
    {"order_num_total_ever_online", "order_num_total_ever_offline",
     "customer_value_total_ever_offline", "customer_value_total_ever_online"}

\* C6 as stated: data_prep caps every numeric column, each with the limits
\* of that column alone, whatever the number of distinct values it holds.
C6_EveryNumericColumnCapped ==
    (pc = "prepared" /\ arg = "df") =>
        \A c \in NumericCsvColumns :
            df.data[c] = replace_with_thresholds(df_org.data[c])

\* C6 amended: data_prep caps every numeric column that holds at least
\* cat_th = 10 distinct values, each with the limits of that column alone,
\* and leaves a numeric column of fewer distinct values, and the customer
\* ids, as they were.
C6_CappedPerColumn ==
    (pc = "prepared" /\ arg = "df") =>
        /\ \A c \in NumericCsvColumns :
              df.data[c] = IF nunique(df_org.data[c]) >= cat_th
                           THEN replace_with_thresholds(df_org.data[c])
                           ELSE df_org.data[c]
        /\ df.data.master_id = df_org.data.master_id

C6_Witness ==
    /\ pc = "prepared" /\ arg = "df"
    /\ df.data.order_num_total_ever_online # df_org.data.order_num_total_ever_online
    /\ nunique(df_org.data.customer_value_total_ever_online) < cat_th
    /\ replace_with_thresholds(df_org.data.customer_value_total_ever_online)
           # df_org.data.customer_value_total_ever_online
    /\ df.data.customer_value_total_ever_online
           = df_org.data.customer_value_total_ever_online

(***************************************************************************)
(* Claims about the pipeline (under Spec).                                 *)
(***************************************************************************)
Built == "monetary_cltv_avg" \in DOMAIN cltv.data

ZeroOrders ==
    /\ "total_order_num" \in DOMAIN df.data
    /\ \E i \in DOMAIN df.data.total_order_num : df.data.total_order_num[i] = 0

\* C2: in the table create_cltv returns, T_weekly >= recency_cltv_weekly for
\* every customer.
C2_TenureCoversRecency ==
    Built =>
        \A i \in DOMAIN cltv.data.T_weekly :
            cltv.data.T_weekly[i] >= cltv.data.recency_cltv_weekly[i]

\* C3: a call with len(segments) # segment_count never gets past the
\* segmentation, and the CSV file is not written by that call.
C3_MismatchFailsBeforeWrite ==
    Len(segments) # segment_count =>
        /\ pc \notin {"segmented", "written", "done"}
        /\ csvFile.writer # run

C3_Witness ==
    /\ Len(segments) # segment_count
    /\ pc = "failed"
    /\ csv
    /\ "cltv" \in DOMAIN cltv.data
    /\ Cardinality(Range(BinEdges(cltv.data.cltv, segment_count))) = segment_count + 1
    /\ csvFile.writer = "module"

\* C7 as stated: a customer with zero total orders makes the division fail,
\* so that create_cltv returns no table.
C7_ZeroFrequencyAborts == ZeroOrders => ~Built

\* C7 amended: with a customer of zero total orders the division raises
\* nothing: create_cltv returns its table, in which that customer's
\* monetary_cltv_avg is NaN (0/0) or infinite; if the run fails, it fails
\* after create_cltv has returned.
C7_ZeroFrequencyUndefined ==
    /\ Built =>
          \A i \in DOMAIN cltv.data.frequency :
              cltv.data.frequency[i] = 0 <=>
                  cltv.data.monetary_cltv_avg[i].is \in {"NaN", "inf", "-inf"}
    /\ (ZeroOrders /\ pc = "failed") => Built

C7_Witness ==
    /\ Built
    /\ pc = "features"
    /\ \E i \in DOMAIN cltv.data.frequency :
          /\ cltv.data.frequency[i] = 0
          /\ cltv.data.monetary_cltv_avg[i].is = "NaN"

\* C8: the table cltv_final returns has exactly one row per customer of the
\* table it was passed, each with a cltv and a label of the list passed.
\* Stated for the runs in which every customer scored has at least one
\* order, so that no score rests on an undefined monetary value.
C8_OneRowPerInputCustomer ==
    (pc = "done" /\ ~ZeroOrders) =>
        /\ cltv.data.customer_id = Passed.data.master_id
        /\ \A i \in DOMAIN cltv.data.segment :
              cltv.data.segment[i] \in Range(segments)

\* C9: create_cltv(dataframe) derives every feature from the rows of the
\* table it was passed, whether or not that table is the module-level df.
C9_FeaturesFromArgument ==
    pc = "features" => cltv = create_cltv_from_argument(Passed, df)

====
